---- MODULE Spec2Model ----
(***************************************************************************)
(* A model of jblinear: the Vector class of vector.py and the Line class   *)
(* of line.py.                                                             *)
(*                                                                         *)
(* Numbers.  Every coordinate is an integer multiple of the unit           *)
(* U = 2^-35 (about 2.9e-11).  On these values the float operations the    *)
(* source performs on coordinates (sum, difference, product) are exact,    *)
(* and so are the Decimal ones up to a relative rounding of 1e-28 that no  *)
(* comparison of the source can observe.  A coordinate n of the model      *)
(* stands for n*U.                                                         *)
(*   - a plain vector has scale [pow |-> 1, div |-> 1, root |-> 1];        *)
(*   - in general a vector with scale [pow, div, root] and coordinates c   *)
(*     stands for c[i] * U^pow / (div * sqrt(root)); div = 0 stands for    *)
(*     the NaN that numpy returns for 0.0 / 0.0;                           *)
(*   - a magnitude is kept as the exact root [sq |-> s], standing for      *)
(*     sqrt(s) * U.                                                        *)
(* TOLERANCE = 1e-10 is 3.4359...*U, so "magnitude < TOLERANCE" is         *)
(* "s < 11.806...", which for an integer s is "s < ToleranceSq".           *)
(*                                                                         *)
(* Objects.  v and w are the two vectors a caller has constructed; every   *)
(* method call is made with v as the receiver and w as the argument (Init  *)
(* draws every ordered pair, so the mirrored calls are covered), and the   *)
(* one-operand methods are called on either.  out is the outcome of the    *)
(* last call: the value returned or the exception raised.                  *)
(***************************************************************************)
EXTENDS Integers, Sequences, FiniteSets, TLC

VARIABLES v, w, out, line

vars == <<v, w, out, line>>

-----------------------------------------------------------------------------
(* Bounds and program constants *)

\* Largest absolute coordinate drawn for a constructed vector, in units.
MaxCoord == 4

\* Largest absolute scalar drawn for v * n.
MaxScalar == 1

\* Largest multiple of the first non-zero normal coordinate drawn as a
\* Line's constant term.
MaxTerm == 1

\* cross() is defined for dimension 3 only; vectors are drawn up to it.
CrossDim == 3

\* Line.dimension
LineDim == 2

\* Vector.TOLERANCE squared, in units of U^2, rounded up: an integer s has
\* sqrt(s)*U < 1e-10 exactly when s < ToleranceSq.
ToleranceSq == 12

\* is_near_zero's eps = 1e-10 in units of U, rounded up: an integer n has
\* abs(n)*U < 1e-10 exactly when abs(n) < NearZeroUnits.
NearZeroUnits == 4

\* Vector.TOLERANCE in units of U^2 / 1024, rounded up (1e-10 * 2^60 =
\* 115292150.46...): an integer k has abs(k)*U^2 < 1e-10 exactly when
\* abs(k) \div 1024 < ToleranceUnits2.
ToleranceUnits2 == 115292151

NORM_ZERO_ERR_MSG == "cannot normalize the zero vector"

Types == {"None", "Decimal", "float"}

-----------------------------------------------------------------------------
(* Arithmetic helpers *)

Abs(n) == IF n < 0 THEN -n ELSE n

Max(a, b) == IF a < b THEN b ELSE a

RECURSIVE SeqSum(_)
\* numpy's ndarray.sum()
SeqSum(s) == IF s = <<>> THEN 0 ELSE Head(s) + SeqSum(Tail(s))

\* numpy broadcasting of two one-dimensional shapes
Broadcastable(m, n) == m = n \/ m = 1 \/ n = 1

\* element i of a one-dimensional array broadcast to a longer shape
At(a, i) == IF Len(a) = 1 THEN a[1] ELSE a[i]

\* a._array * b._array, elementwise with broadcasting
ArrayMul(a, b) == [i \in 1..Max(Len(a), Len(b)) |-> At(a, i) * At(b, i)]

\* Python arithmetic between a Decimal and a float raises TypeError; every
\* other pairing of Decimal, float and int is defined.
Compatible(k1, k2) == ~({k1, k2} = {"Decimal", "float"})

SumSq(c) == SeqSum([i \in 1..Len(c) |-> c[i] * c[i]])

Dot(a, b) == SeqSum(ArrayMul(a, b))

-----------------------------------------------------------------------------
(* Outcomes of a call *)

NoVal == [none |-> TRUE]

Ok(val) == [status |-> "ok", exc |-> "", msg |-> "", val |-> val]

Raise(exc, msg) == [status |-> "raise", exc |-> exc, msg |-> msg, val |-> NoVal]

UnsupportedOperand(op) == Raise("TypeError", "unsupported operand type(s) for " \o op)

-----------------------------------------------------------------------------
(* Vector *)

EmptyCache == [k \in {} |-> 0]

Put(cache, k, x) == [y \in DOMAIN cache \cup {k} |-> IF y = k THEN x ELSE cache[y]]

Plain == [pow |-> 1, div |-> 1, root |-> 1]

\* The element representation a mode tag coerces to.
ElemOf(type) == IF type = "Decimal" THEN "Decimal" ELSE "float"

\* Vector.__init__: a mode tag coerces every coordinate (an exact
\* conversion on multiples of U); the cache starts empty.
Vector(id, coordinates, scale, elem, type) ==
    [id |-> id,
     coordinates |-> coordinates,
     scale |-> scale,
     elem |-> IF type = "None" THEN elem ELSE ElemOf(type),
     type |-> type,
     cache |-> EmptyCache]

\* Vector._mix_types: ((v._type is w._type) and v._type) or None
_mix_types(a, b) == IF a.type = b.type THEN a.type ELSE "None"

\* Vector.dimension (cached property)
dimension(a) ==
    LET c == IF "dimension" \in DOMAIN a.cache
             THEN a.cache
             ELSE Put(a.cache, "dimension", Len(a.coordinates))
    IN  [self |-> [a EXCEPT !.cache = c], res |-> Ok(c["dimension"])]

\* magnitude as it would be if the first access replaced the cache
\* (v._cache = {'magnitude': mag}) instead of adding one entry to it.
magnitude_replacing_cache(a) ==
    LET mag == [sq |-> SumSq(a.coordinates),
                kind |-> IF a.type = "Decimal" THEN "Decimal" ELSE "float"]
        c == IF "magnitude" \in DOMAIN a.cache
             THEN a.cache
             ELSE Put(EmptyCache, "magnitude", mag)
    IN  [self |-> [a EXCEPT !.cache = c], res |-> Ok(c["magnitude"])]

\* Vector.magnitude (cached property): the exact root of the sum of squares,
\* a Decimal for a Decimal-tagged vector and a float otherwise.
magnitude(a) ==
    LET mag == [sq |-> SumSq(a.coordinates),
                kind |-> IF a.type = "Decimal" THEN "Decimal" ELSE "float"]
        c == IF "magnitude" \in DOMAIN a.cache
             THEN a.cache
             ELSE Put(a.cache, "magnitude", mag)
    IN  [self |-> [a EXCEPT !.cache = c], res |-> Ok(c["magnitude"])]

\* A scalar num * U^pow / (div * sqrt(root)) of the given kind.
Scalar(num, pow, div, root, kind) ==
    [num |-> num, pow |-> pow, div |-> div, root |-> root, kind |-> kind]

\* Vector.__mul__ for a numeric n: Decimal(n) for a Decimal-tagged vector
\* (float(n) only validates n otherwise), then v._array * n.
__mul__(a, n) ==
    LET kind == IF a.type = "Decimal" THEN "Decimal" ELSE n.kind
    IN  IF ~Compatible(a.elem, kind)
        THEN UnsupportedOperand("*")
        ELSE Ok(Vector("new",
                       [i \in 1..Len(a.coordinates) |-> a.coordinates[i] * n.num],
                       [pow |-> a.scale.pow + n.pow,
                        div |-> a.scale.div * n.div,
                        root |-> a.scale.root * n.root],
                       IF kind = "int" THEN a.elem ELSE kind,
                       a.type))

\* normalized as it would be if 1 / magnitude did not raise for a zero
\* magnitude (numpy's float division returns inf): the vector of NaN
\* coordinates is stored and returned.
normalized_without_zero_check(a) ==
    IF "normalized" \in DOMAIN a.cache
    THEN [self |-> a, res |-> Ok(a.cache["normalized"])]
    ELSE LET m == magnitude(a)
             mag == m.res.val
             p == __mul__(m.self, Scalar(1, -1, IF mag.sq = 0 THEN 0 ELSE 1,
                                         mag.sq, mag.kind))
         IN  IF p.status = "raise"
             THEN [self |-> m.self, res |-> p]
             ELSE [self |-> [m.self EXCEPT
                               !.cache = Put(m.self.cache, "normalized", p.val)],
                   res |-> p]

\* Vector.normalized (cached property): v * (1 / v.magnitude);
\* ZeroDivisionError (decimal.DivisionByZero is one) becomes ValueError.
normalized(a) ==
    IF "normalized" \in DOMAIN a.cache
    THEN [self |-> a, res |-> Ok(a.cache["normalized"])]
    ELSE LET m == magnitude(a)
             mag == m.res.val
         IN  IF mag.sq = 0
             THEN [self |-> m.self, res |-> Raise("ValueError", NORM_ZERO_ERR_MSG)]
             ELSE LET p == __mul__(m.self, Scalar(1, -1, 1, mag.sq, mag.kind))
                  IN  IF p.status = "raise"
                      THEN [self |-> m.self, res |-> p]
                      ELSE [self |-> [m.self EXCEPT
                                        !.cache = Put(m.self.cache, "normalized", p.val)],
                            res |-> p]

\* is_zero as it would be if it compared a Decimal magnitude with the exact
\* zero and only a float magnitude with TOLERANCE.
is_zero_exact_for_decimal(a) ==
    LET m == magnitude(a)
    IN  [self |-> m.self,
         res |-> Ok(IF m.res.val.kind = "Decimal"
                    THEN m.res.val.sq = 0
                    ELSE m.res.val.sq < ToleranceSq)]

\* Vector.is_zero: v.magnitude < v.TOLERANCE
is_zero(a) ==
    LET m == magnitude(a)
    IN  [self |-> m.self, res |-> Ok(m.res.val.sq < ToleranceSq)]

\* v._array + w._array or v._array - w._array behind the checks that
\* __add__ and __sub__ share: the operand is a Vector, the dimensions are
\* equal (both cached by the test), and the elements can be combined.
Combine(a, b, sign, op, what) ==
    LET da == dimension(a)
        db == dimension(b)
        res == IF da.res.val # db.res.val
               THEN Raise("ValueError",
                          what \o " undefined on vectors of different dimensions")
               ELSE IF ~Compatible(a.elem, b.elem)
               THEN UnsupportedOperand(op)
               ELSE Ok(Vector("new",
                              [i \in 1..Len(a.coordinates) |->
                                  a.coordinates[i] + sign * b.coordinates[i]],
                              a.scale, a.elem, _mix_types(a, b)))
    IN  [self |-> da.self, other |-> db.self, res |-> res]

\* __add__ as it would be if it added in place (v._array += w._array) and
\* returned v.
add_in_place(a, b) ==
    LET r == Combine(a, b, 1, "+", "addition")
        sum == [r.self EXCEPT !.coordinates = r.res.val.coordinates]
    IN  IF r.res.status = "raise"
        THEN r
        ELSE [self |-> sum, other |-> r.other, res |-> Ok(sum)]

\* Vector.__add__
__add__(a, b) == Combine(a, b, 1, "+", "addition")

\* Vector.__sub__
__sub__(a, b) == Combine(a, b, -1, "-", "subtraction")

\* Vector.__eq__: (v - w).is_zero()
__eq__(a, b) ==
    LET d == __sub__(a, b)
    IN  [self |-> d.self, other |-> d.other,
         res |-> IF d.res.status = "raise" THEN d.res ELSE is_zero(d.res.val).res]

\* Vector.inner: numpy raises ValueError for shapes it cannot broadcast
\* (and only then does the handler read the dimensions); one operand of
\* dimension 1 is broadcast.  The value is in units of U^2.
inner(a, b) ==
    IF ~Broadcastable(Len(a.coordinates), Len(b.coordinates))
    THEN [self |-> dimension(a).self, other |-> dimension(b).self,
          res |-> Raise("ValueError",
                        "inner product undefined on vectors of different dimensions")]
    ELSE [self |-> a, other |-> b,
          res |-> IF ~Compatible(a.elem, b.elem)
                  THEN UnsupportedOperand("*")
                  ELSE Ok([num |-> Dot(a.coordinates, b.coordinates),
                           kind |-> a.elem])]

\* Vector.cross: an untagged vector in units of U^2.
cross(a, b) ==
    LET da == dimension(a)
        db == dimension(b)
        x == 1
        y == 2
        z == 3
        p == a.coordinates
        q == b.coordinates
        res == IF ~(da.res.val = db.res.val /\ db.res.val = CrossDim)
               THEN Raise("ValueError",
                          "cross product only defined for 3-dimensional vectors")
               ELSE IF ~Compatible(a.elem, b.elem)
               THEN UnsupportedOperand("*")
               ELSE Ok(Vector("new",
                              << p[y]*q[z] - q[y]*p[z],
                                 q[x]*p[z] - p[x]*q[z],
                                 p[x]*q[y] - q[x]*p[y] >>,
                              [pow |-> 2, div |-> 1, root |-> 1],
                              a.elem, "None"))
    IN  [self |-> da.self, other |-> db.self, res |-> res]

\* Vector.angle.  The cosine is k / sqrt(s*t) for k = inner, s and t the
\* squared magnitudes.  over: whether float rounding takes a cosine of
\* exactly 1 or -1 outside acos's domain (it can; a Decimal cosine is
\* converted to the nearest float first, which is 1.0 or -1.0).
angle(a, b, over) ==
    LET i == inner(a, b)
        da == dimension(i.self)
        db == dimension(i.other)
        ma == magnitude(i.self)
        mb == magnitude(i.other)
        k == i.res.val.num
        s == ma.res.val.sq
        t == mb.res.val.sq
        dimErr == Raise("ValueError",
                        "angle undefined on vectors of different dimensions")
    IN  IF i.res.status = "raise"
        THEN IF i.res.exc = "ValueError"
             THEN [self |-> da.self, other |-> db.self,
                   res |-> IF i.res.msg = NORM_ZERO_ERR_MSG
                           THEN Raise("ValueError", "angle with the zero vector undefined")
                           ELSE IF da.res.val # db.res.val THEN dimErr ELSE i.res]
             ELSE [self |-> i.self, other |-> i.other, res |-> i.res]
        ELSE IF ~Compatible(ma.res.val.kind, mb.res.val.kind)
        THEN [self |-> ma.self, other |-> mb.self, res |-> UnsupportedOperand("*")]
        ELSE IF s * t = 0
        THEN [self |-> ma.self, other |-> mb.self,
              res |-> Raise("ZeroDivisionError", "division by zero")]
        ELSE IF ~Compatible(i.res.val.kind, ma.res.val.kind)
        THEN [self |-> ma.self, other |-> mb.self, res |-> UnsupportedOperand("*")]
        ELSE IF k * k > s * t \/ (k * k = s * t /\ i.res.val.kind = "float" /\ over)
        THEN LET ea == dimension(ma.self)
                 eb == dimension(mb.self)
             IN  [self |-> ea.self, other |-> eb.self,
                  res |-> IF ea.res.val # eb.res.val
                          THEN dimErr
                          ELSE Raise("ValueError", "math domain error")]
        ELSE [self |-> ma.self, other |-> mb.self,
              res |-> Ok([cosnum |-> k, cossq |-> s * t])]

\* Vector.projected: basis * (v.inner(basis) / (basis.magnitude ** 2)).
\* On a zero basis the quotient is 0/0: numpy's float64 gives NaN (div = 0),
\* Decimal raises InvalidOperation.
projected(a, basis) ==
    LET i == inner(a, basis)
        m == magnitude(i.other)
        k == i.res.val.num
        s == m.res.val.sq
    IN  IF i.res.status = "raise"
        THEN i
        ELSE IF ~Compatible(i.res.val.kind, m.res.val.kind)
        THEN [self |-> i.self, other |-> m.self, res |-> UnsupportedOperand("/")]
        ELSE IF s = 0 /\ m.res.val.kind = "Decimal"
        THEN [self |-> i.self, other |-> m.self,
              res |-> Raise("InvalidOperation", "DivisionUndefined")]
        ELSE [self |-> i.self, other |-> m.self,
              res |-> __mul__(m.self, Scalar(k, 0, s, 1, m.res.val.kind))]

\* Vector.is_orthogonal: abs(v.inner(w)) < v.TOLERANCE
is_orthogonal(a, b) ==
    LET i == inner(a, b)
    IN  [self |-> i.self, other |-> i.other,
         res |-> IF i.res.status = "raise"
                 THEN i.res
                 ELSE Ok(Abs(i.res.val.num) \div 1024 < ToleranceUnits2)]

\* Vector.__eq__ on two unit vectors a/sqrt(s) and b/sqrt(t), as normalized
\* returns them.  __sub__ makes its checks and caches both dimensions; the
\* difference has squared magnitude 2 - 2k/sqrt(s*t) for k = a.b, which is
\* 0 when k > 0 and k*k = s*t (the code then computes a rounding noise far
\* below TOLERANCE) and is at least 1/(s*t), far above TOLERANCE^2 = 1e-20,
\* otherwise.
unit_eq(a, b) ==
    LET da == dimension(a)
        db == dimension(b)
        k == Dot(a.coordinates, b.coordinates)
        res == IF da.res.val # db.res.val
               THEN Raise("ValueError",
                          "subtraction undefined on vectors of different dimensions")
               ELSE IF ~Compatible(a.elem, b.elem)
               THEN UnsupportedOperand("-")
               ELSE Ok(k > 0 /\ k * k = a.scale.root * b.scale.root)
    IN  [self |-> da.self, other |-> db.self, res |-> res]

\* Vector.is_parallel: v.is_zero() or w.is_zero() or
\* v.normalized == w.normalized or v.normalized * -1 == w.normalized
is_parallel(a, b) ==
    LET za == is_zero(a)
        zb == is_zero(b)
        na == normalized(za.self)
        nb == normalized(zb.self)
        e1 == unit_eq(na.res.val, nb.res.val)
        a1 == [na.self EXCEPT !.cache = Put(na.self.cache, "normalized", e1.self)]
        b1 == [nb.self EXCEPT !.cache = Put(nb.self.cache, "normalized", e1.other)]
        neg == __mul__(e1.self, Scalar(-1, 0, 1, 1, "int"))
        e2 == unit_eq(neg.val, e1.other)
    IN  IF za.res.val
        THEN [self |-> za.self, other |-> b, res |-> Ok(TRUE)]
        ELSE IF zb.res.val
        THEN [self |-> za.self, other |-> zb.self, res |-> Ok(TRUE)]
        ELSE IF na.res.status = "raise"
        THEN [self |-> na.self, other |-> zb.self, res |-> na.res]
        ELSE IF nb.res.status = "raise"
        THEN [self |-> na.self, other |-> nb.self, res |-> nb.res]
        ELSE IF e1.res.status = "raise" \/ e1.res.val
        THEN [self |-> a1, other |-> b1, res |-> e1.res]
        ELSE IF neg.status = "raise"
        THEN [self |-> a1, other |-> b1, res |-> neg]
        ELSE [self |-> a1, other |-> b1, res |-> e2.res]

-----------------------------------------------------------------------------
(* Line *)

\* is_near_zero(val, eps=1e-10): abs(val) < eps
is_near_zero(val) == Abs(val) < NearZeroUnits

\* Line.first_nonzero_index, counting from 1; 0 stands for NoNonZeroElements.
first_nonzero_index(c) ==
    IF \A k \in 1..Len(c) : is_near_zero(c[k])
    THEN 0
    ELSE CHOOSE k \in 1..Len(c) :
            ~is_near_zero(c[k]) /\ \A j \in 1..(k - 1) : is_near_zero(c[j])

\* c / coefficient for a constant term that is a multiple of the coefficient
Quot(c, coef) == IF coef < 0 THEN (-c) \div (-coef) ELSE c \div coef

NoLine == [made |-> FALSE]

\* Line.__init__ with a normal vector n and a constant term c (in units of
\* U^2): set_basepoint, then set_direction_vector.  n[i] and n['x'] read
\* n.dimension, which caches it.  c is a Decimal, so c / n[i] raises
\* TypeError for a float coordinate.
Line(n, c) ==
    LET i == first_nonzero_index(n.coordinates)
        n1 == dimension(n).self
        basepoint == Vector("basepoint",
                            [k \in 1..LineDim |->
                                IF k = i THEN Quot(c, n.coordinates[i]) ELSE 0],
                            Plain, "Decimal", "Decimal")
        direction == Vector("direction",
                            << -n.coordinates[1], n.coordinates[2] >>,
                            Plain, n.elem, "Decimal")
    IN  IF i # 0 /\ ~Compatible("Decimal", n.elem)
        THEN [normal |-> n1, res |-> UnsupportedOperand("/")]
        ELSE IF i > LineDim \/ Len(n.coordinates) < 2
        THEN [normal |-> n1, res |-> Raise("IndexError", "list index out of range")]
        ELSE [normal |-> n1,
              res |-> Ok([made |-> TRUE,
                          constant_term |-> c,
                          has_basepoint |-> i # 0,
                          basepoint |-> IF i # 0 THEN basepoint ELSE NoVal,
                          direction_vector |-> direction])]

\* Line.includes_point for a point that is a Vector:
\* (point - self.basepoint).is_parallel(self.direction_vector)
includes_point(l, point) ==
    LET d == __sub__(point, l.basepoint)
        p == is_parallel(d.res.val, l.direction_vector)
    IN  IF ~l.has_basepoint
        THEN [line |-> l, point |-> point, res |-> UnsupportedOperand("-")]
        ELSE IF d.res.status = "raise"
        THEN [line |-> [l EXCEPT !.basepoint = d.other], point |-> d.self, res |-> d.res]
        ELSE [line |-> [l EXCEPT !.basepoint = d.other, !.direction_vector = p.other],
              point |-> d.self, res |-> p.res]

-----------------------------------------------------------------------------
(* The caller: two constructed vectors and the calls made on them *)

Dims == 1..CrossDim

\* Coordinates drawn for a constructed vector: zero, one tiny value (below
\* TOLERANCE) and one value above TOLERANCE of either sign.
Coords(d) ==
    [1..d -> {0, MaxCoord}] \cup [1..d -> {0, -MaxCoord}] \cup [1..d -> {0, 1}]

\* Vector(coordinates, type=t) for float coordinates
Vectors(id, dims) ==
    {Vector(id, c, Plain, "float", t) : c \in UNION {Coords(d) : d \in dims},
                                        t \in Types}

\* The smaller draw of the specification that follows sequences of calls:
\* per dimension the zero vector, one vector along the first axis and one
\* along the diagonal, and one tiny vector; untagged or Decimal.
SeqCoords(d) ==
    {[i \in 1..d |-> IF i = 1 THEN c ELSE 0] : c \in {0, MaxCoord}}
    \cup {[i \in 1..d |-> MaxCoord]}
    \cup {[i \in 1..d |-> 1] : e \in IF d = 1 THEN {1} ELSE {}}

SeqVectors(id) ==
    {Vector(id, c, Plain, "float", t) : c \in UNION {SeqCoords(d) : d \in Dims},
                                        t \in {"None", "Decimal"}}

Call(op, on, res) ==
    [op |-> op, on |-> on, status |-> res.status, exc |-> res.exc,
     msg |-> res.msg, val |-> res.val]

NoCall == Call("", "", Ok(NoVal))

\* A call of a two-operand method on v with argument w.
Binary(op, r) ==
    /\ v' = r.self
    /\ w' = r.other
    /\ out' = Call(op, "vw", r.res)
    /\ UNCHANGED line

\* A call of a one-operand method on v or on w.
Unary(op, x, r) ==
    /\ IF x = "v" THEN v' = r.self /\ w' = w ELSE w' = r.self /\ v' = v
    /\ out' = Call(op, x, r.res)
    /\ UNCHANGED line

Operand(x) == IF x = "v" THEN v ELSE w

Add == Binary("add", __add__(v, w))

Sub == Binary("sub", __sub__(v, w))

Eq == Binary("eq", __eq__(v, w))

Inner == Binary("inner", inner(v, w))

Cross == Binary("cross", cross(v, w))

Angle == \E over \in BOOLEAN : Binary("angle", angle(v, w, over))

Projected == Binary("projected", projected(v, w))

IsOrthogonal == Binary("is_orthogonal", is_orthogonal(v, w))

IsParallel == Binary("is_parallel", is_parallel(v, w))

Mul(x) ==
    \E n \in -MaxScalar..MaxScalar :
        Unary("mul", x, [self |-> Operand(x),
                         res |-> __mul__(Operand(x), Scalar(n, 0, 1, 1, "int"))])

Dimension(x) == Unary("dimension", x, dimension(Operand(x)))

Magnitude(x) == Unary("magnitude", x, magnitude(Operand(x)))

Normalized(x) == Unary("normalized", x, normalized(Operand(x)))

IsZero(x) == Unary("is_zero", x, is_zero(Operand(x)))

\* Line(v, c): v is the normal vector; a failed construction leaves no Line.
LineNew ==
    /\ ~line.made
    /\ \E q \in -MaxTerm..MaxTerm :
          LET r == Line(v, q * MaxCoord)
          IN  /\ v' = r.normal
              /\ line' = IF r.res.status = "ok" THEN r.res.val ELSE line
              /\ out' = Call("Line", "v", IF r.res.status = "ok" THEN Ok(NoVal) ELSE r.res)
    /\ UNCHANGED w

\* line.includes_point(w)
IncludesPoint ==
    /\ line.made
    /\ \E r \in {includes_point(line, w)} :
           /\ line' = r.line
           /\ w' = r.point
           /\ out' = Call("includes_point", "w", r.res)
    /\ UNCHANGED v

Next ==
    \/ Add
    \/ Sub
    \/ Eq
    \/ Inner
    \/ Cross
    \/ Angle
    \/ Projected
    \/ IsOrthogonal
    \/ IsParallel
    \/ \E x \in {"v", "w"} : Mul(x)
    \/ \E x \in {"v", "w"} : Dimension(x)
    \/ \E x \in {"v", "w"} : Magnitude(x)
    \/ \E x \in {"v", "w"} : Normalized(x)
    \/ \E x \in {"v", "w"} : IsZero(x)

\* Any sequence of calls on two vectors of the smaller draw.
Init ==
    /\ v \in SeqVectors("v")
    /\ w \in SeqVectors("w")
    /\ out = NoCall
    /\ line = NoLine

Spec == Init /\ [][Next]_vars

\* One call on two freshly constructed vectors of the full draw.
InitCall ==
    /\ v \in Vectors("v", Dims)
    /\ w \in Vectors("w", Dims)
    /\ out = NoCall
    /\ line = NoLine

\* No call has been made yet.
Fresh == out.op = ""

NextCall ==
    \/ Fresh /\ Add
    \/ Fresh /\ Sub
    \/ Fresh /\ Eq
    \/ Fresh /\ Inner
    \/ Fresh /\ Cross
    \/ Fresh /\ Angle
    \/ Fresh /\ Projected
    \/ Fresh /\ IsOrthogonal
    \/ Fresh /\ IsParallel
    \/ \E x \in {"v", "w"} : Fresh /\ Mul(x)
    \/ \E x \in {"v", "w"} : Fresh /\ Dimension(x)
    \/ \E x \in {"v", "w"} : Fresh /\ Magnitude(x)
    \/ \E x \in {"v", "w"} : Fresh /\ Normalized(x)
    \/ \E x \in {"v", "w"} : Fresh /\ IsZero(x)

SpecCall == InitCall /\ [][NextCall]_vars

\* A Line built on a normal vector v of dimension LineDim, then asked about
\* points w.
InitLine ==
    /\ v \in Vectors("v", {LineDim})
    /\ w \in Vectors("w", 1..LineDim)
    /\ out = NoCall
    /\ line = NoLine

NextLine == LineNew \/ IncludesPoint

SpecLine == InitLine /\ [][NextLine]_vars

-----------------------------------------------------------------------------
(* Properties of the arithmetic operators and of angle *)

SameDimension == Len(v.coordinates) = Len(w.coordinates)

DimensionMessages ==
    {"addition undefined on vectors of different dimensions",
     "subtraction undefined on vectors of different dimensions",
     "inner product undefined on vectors of different dimensions"}

\* C1: for v and w of equal dimension, v + w and v - w each return a vector
\* whose mode is the operands' mode when both carry the identical tag and is
\* untagged in every other case.
C1_SumModeIsSharedOrNone ==
    (out.op \in {"add", "sub"} /\ SameDimension) =>
        /\ out.status = "ok"
        /\ out.val.type = (IF v.type = w.type THEN v.type ELSE "None")

\* C2: add, sub and inner fail with a dimension-mismatch error whenever the
\* operands have different dimensions, a dimension of 1 included, and never
\* return a value then.
C2_DifferentDimensionsRaise ==
    (out.op \in {"add", "sub", "inner"} /\ ~SameDimension) =>
        /\ out.status = "raise"
        /\ out.exc = "ValueError"
        /\ out.msg \in DimensionMessages

\* C3: angle fails with 'angle with the zero vector undefined' whenever v or
\* w is the zero vector and the dimensions are equal, and with 'angle
\* undefined on vectors of different dimensions' whenever they differ; no
\* other error escapes in these two cases.
C3_AngleErrorsAreDistinguished ==
    out.op = "angle" =>
        /\ (SameDimension /\ 0 \in {SumSq(v.coordinates), SumSq(w.coordinates)}) =>
              /\ out.status = "raise"
              /\ out.exc = "ValueError"
              /\ out.msg = "angle with the zero vector undefined"
        /\ ~SameDimension =>
              /\ out.status = "raise"
              /\ out.exc = "ValueError"
              /\ out.msg = "angle undefined on vectors of different dimensions"

\* C5: for v and w of equal dimension, whatever their modes, v + w - w == v
\* evaluates without error and yields true.  Stated on the sum v + w that a
\* call has returned or failed to return: the sum exists, and subtracting w
\* from it and comparing with v yields true.
C5_AddSubRoundTrip ==
    (out.op = "add" /\ SameDimension) =>
        /\ out.status = "ok"
        /\ __sub__(out.val, w).res.status = "ok"
        /\ __eq__(__sub__(out.val, w).res.val, v).res = Ok(TRUE)

-----------------------------------------------------------------------------
(* Properties of Line *)

\* C10: for every Line constructed with a non-zero normal vector n, the
\* direction vector is orthogonal to n (their inner product is zero), so
\* that includes_point accepts the basepoint plus any vector perpendicular
\* to the normal.
C10_DirectionOrthogonalToNormal ==
    (line.made /\ line.has_basepoint) =>
        /\ Dot(line.direction_vector.coordinates, v.coordinates) = 0
        /\ (/\ out.op = "includes_point"
            /\ out.status = "ok"
            /\ line.has_basepoint
            /\ Dot([k \in 1..LineDim |->
                       w.coordinates[k] - line.basepoint.coordinates[k]],
                   v.coordinates) = 0) => out.val = TRUE

-----------------------------------------------------------------------------
(* Properties of is_zero and is_parallel *)

\* The vector the last one-operand call was made on.
Receiver == IF out.on = "w" THEN w ELSE v

BelowTolerance(x) == SumSq(x.coordinates) < ToleranceSq

\* C9: is_parallel(v, w) returns true whenever v or w is a zero vector,
\* without normalizing it and without the normalization error; for two
\* non-zero vectors (of the same dimension, a vector counting as zero as
\* is_zero decides) it returns true exactly when v.normalized equals
\* w.normalized or its negation, that is when (v.w)^2 = |v|^2 |w|^2.
C9_ParallelIffNormalizedAgree ==
    out.op = "is_parallel" =>
        /\ (BelowTolerance(v) \/ BelowTolerance(w)) =>
              /\ out.status = "ok"
              /\ out.val = TRUE
              /\ BelowTolerance(v) => "normalized" \notin DOMAIN v.cache
              /\ BelowTolerance(w) => "normalized" \notin DOMAIN w.cache
        /\ (~BelowTolerance(v) /\ ~BelowTolerance(w) /\ SameDimension) =>
              /\ out.status = "ok"
              /\ out.val = (Dot(v.coordinates, w.coordinates)
                               * Dot(v.coordinates, w.coordinates)
                            = SumSq(v.coordinates) * SumSq(w.coordinates))

-----------------------------------------------------------------------------
(* Properties of the cache and of the operands *)

\* C6: normalized on a vector of zero magnitude fails, in every mode, with
\* 'cannot normalize the zero vector', on the first access and on every
\* later one; no 'normalized' entry is stored by it: a stored entry is
\* v * (1 / magnitude) for a non-zero magnitude that is itself stored.
C6_NormalizedZeroFailsAndStoresNothing ==
    /\ (out.op = "normalized" /\ SumSq(Receiver.coordinates) = 0) =>
          /\ out.status = "raise"
          /\ out.exc = "ValueError"
          /\ out.msg = NORM_ZERO_ERR_MSG
    /\ \A x \in {v, w} :
          "normalized" \in DOMAIN x.cache =>
              /\ SumSq(x.coordinates) # 0
              /\ "magnitude" \in DOMAIN x.cache
              /\ x.cache["normalized"].coordinates = x.coordinates
              /\ x.cache["normalized"].scale =
                    [pow |-> 0, div |-> 1, root |-> x.cache["magnitude"].sq]

\* normalized was accessed on a zero vector after its magnitude had been
\* stored, it failed, and the other vector holds a stored normalized form.
C6_ZeroVectorNormalizedFailed ==
    /\ out.op = "normalized"
    /\ out.on = "v"
    /\ out.status = "raise"
    /\ SumSq(v.coordinates) = 0
    /\ DOMAIN v.cache = {"dimension", "magnitude"}
    /\ "normalized" \in DOMAIN w.cache

Bare(x) == [x EXCEPT !.cache = EmptyCache]

\* A stored entry is the same after a step: a number unchanged, a stored
\* vector the same object, whose own cache has lost nothing.
SameEntry(k, old, new) ==
    IF k = "normalized"
    THEN /\ Bare(old) = Bare(new)
         /\ \A j \in DOMAIN old.cache :
               j \in DOMAIN new.cache /\ new.cache[j] = old.cache[j]
    ELSE old = new

CacheKept(old, new) ==
    \A k \in DOMAIN old.cache :
        k \in DOMAIN new.cache /\ SameEntry(k, old.cache[k], new.cache[k])

\* The property access a step made returned the stored entry, which is the
\* entry stored before the step when there was one.
AccessReturnsStored(old, new) ==
    (out'.op \in {"dimension", "magnitude", "normalized"} /\ out'.status = "ok") =>
        /\ out'.op \in DOMAIN new.cache
        /\ out'.val = new.cache[out'.op]
        /\ out'.op \in DOMAIN old.cache => out'.val = old.cache[out'.op]

\* C7: the cache is write-once per field: over any sequence of calls each of
\* 'dimension', 'magnitude' and 'normalized', once stored, is never
\* overwritten or removed, and every access to the property returns the
\* value the first access returned.
C7_CacheIsWriteOnce ==
    [][/\ CacheKept(v, v')
       /\ CacheKept(w, w')
       /\ IF out'.on = "w"
          THEN AccessReturnsStored(w, w')
          ELSE AccessReturnsStored(v, v')]_vars

\* normalized was accessed on v when all three fields were stored and the
\* stored normalized form had already been compared by is_parallel.
C7_AccessOfFilledCache ==
    /\ out.op = "normalized"
    /\ out.on = "v"
    /\ out.status = "ok"
    /\ DOMAIN v.cache = {"dimension", "magnitude", "normalized"}
    /\ "dimension" \in DOMAIN v.cache["normalized"].cache

Arithmetic == {"add", "sub", "mul", "cross", "projected"}

\* C8: no operation mutates its operands: after any call, successful or
\* failed, the coordinates, the coordinate count and the mode tag of v and
\* w are what they were, and an arithmetic operator returns a newly created
\* vector that is neither operand.
C8_OperandsAreNotMutated ==
    [][/\ Bare(v') = Bare(v)
       /\ Bare(w') = Bare(w)
       /\ (out'.op \in Arithmetic /\ out'.status = "ok") =>
             out'.val.id \notin {v.id, w.id}]_vars

\* v + w returned a vector other than v with v non-zero and w non-zero.
C8_SumReturned ==
    /\ out.op = "add"
    /\ out.status = "ok"
    /\ out.val.id \notin {v.id, w.id}
    /\ out.val.coordinates # v.coordinates
    /\ out.val.coordinates # w.coordinates
    /\ "dimension" \in DOMAIN v.cache

====
